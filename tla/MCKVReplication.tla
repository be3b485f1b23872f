--------------------------- MODULE MCKVReplication ---------------------------
\* Workloads of KVReplication for TLC.
EXTENDS KVRefinement

CONSTANTS c1, empty, a, b, r1, r2, r3

Get1 == [kind |-> "Get", col |-> c1, v1 |-> empty, v2 |-> empty]
Put1(k, v) == [kind |-> "Put", col |-> k, v1 |-> empty, v2 |-> v]
Delete1 == [kind |-> "Delete", col |-> c1, v1 |-> empty, v2 |-> empty]
CPut1(x, y) == [kind |-> "CPut", col |-> c1, v1 |-> x, v2 |-> y]

\* A Put and two CPuts that compete to replace its value.
Writers == {[r \in Thread |-> CASE r = r1 -> Put1(c1, a) [] r = r2 -> CPut1(a, b)
                               [] OTHER -> CPut1(a, empty)]}

\* A write racing its removal; a CPut of a column that is not there, and a write of an empty column.
Pairs == {[r \in Thread |-> IF r = r1 THEN Put1(c1, a) ELSE Delete1],
          [r \in Thread |-> IF r = r1 THEN CPut1(b, a) ELSE Put1(EmptyKey, b)]}

\* A write racing a read, another write, a CPut of a column that should not exist yet.
Clashes == {[r \in Thread |-> IF r = r1 THEN Put1(c1, a) ELSE o] :
              o \in {Get1, Put1(c1, b), CPut1(empty, b)}}
====
