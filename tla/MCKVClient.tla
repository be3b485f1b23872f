------------------------------ MODULE MCKVClient ------------------------------
\* Calls of KVClient for TLC.
EXTENDS KVClient

CONSTANTS c1, empty, a, b, p, q, s

Requests == Client \X (1..Tries)

Get1 == [kind |-> "Get", col |-> c1, v1 |-> empty, v2 |-> empty]
Put1(v) == [kind |-> "Put", col |-> c1, v1 |-> empty, v2 |-> v]
Delete1 == [kind |-> "Delete", col |-> c1, v1 |-> empty, v2 |-> empty]
CPut1(x, y) == [kind |-> "CPut", col |-> c1, v1 |-> x, v2 |-> y]

\* What p, q and s call.
CallsOf(x, y, z) == [r \in Requests |-> CASE r[1] = p -> x [] r[1] = q -> y [] r[1] = s -> z]

\* Two cput calls that replace the same value, and the put that writes it.
Competing == CallsOf(Put1(a), CPut1(a, b), CPut1(a, b))

\* Any two of a put, a cput of its value and a del, or of a put, a cput that never finds its value
\* and a get or getdefault.
Pairs == {CallsOf(Put1(a), CPut1(a, b), Delete1), CallsOf(Put1(a), CPut1(b, a), Get1)}

Calls == {Competing} \union Pairs

\* All three of the competing calls, two of the others and a crash.
CallBounds ==
  [w \in Calls |-> IF w = Competing THEN [calls |-> 3, crashes |-> 0] ELSE [calls |-> 2, crashes |-> 1]]

\* A put, and a cput that expects another value.
Clash == {[r \in Requests |-> IF r[1] = p THEN Put1(a) ELSE CPut1(b, a)]}
ClashBounds == [w \in Clash |-> [calls |-> 2, crashes |-> 0]]
====
