------------------------------- MODULE RowOps -------------------------------
(***************************************************************************)
(* One row of a tablet and what the requests of kv/KVClass.h do to it: a   *)
(* row is a function from columns to values.  A row without columns and a  *)
(* missing row get the same answers from every handler, so the two are one *)
(* state here.                                                             *)
(***************************************************************************)

CONSTANTS Col, EmptyKey,        \* columns, and the empty string for a column
          Value, EmptyValue,    \* values; the empty string is one of them
          Absent                \* no such column

ASSUME KeyAssumption == EmptyKey \notin Col
ASSUME ValueAssumption == EmptyValue \in Value /\ Absent \notin Value

Key == Col \union {EmptyKey}
Operation == [kind : {"Get", "Put", "Delete", "CPut"}, col : Key, v1 : Value, v2 : Value]
EmptyRow == [c \in Key |-> Absent]

\* A delete that leaves a marker in the column instead of erasing it.
ConductMarker(o, w) == [w EXCEPT ![o.col] = IF o.kind = "Delete" THEN "deleted" ELSE o.v2]

\* conduct_p and conduct_d on a row.
Conduct(o, w) == [w EXCEPT ![o.col] = IF o.kind = "Delete" THEN Absent ELSE o.v2]

\* Put and CPut refuse an empty column, Get and Delete do not.
BadKey(o) == o.kind \in {"Put", "CPut"} /\ o.col = EmptyKey

GetStatus(o, w) == IF w[o.col] = Absent THEN "NOT_FOUND" ELSE "OK"

\* CPut's checks.  Map::at on a missing column throws, so an empty v1, which asks for a column
\* that does not exist, is answered UNKNOWN by gRPC.
CPutStatus(o, w) ==
  IF w[o.col] = Absent THEN (IF o.v1 = EmptyValue THEN "UNKNOWN" ELSE "NOT_FOUND")
  ELSE IF w[o.col] = o.v1 THEN "OK" ELSE "FAILED_PRECONDITION"

\* An operation that puts value v into column c, and one that takes it out for another.
Puts(o, c, v) == o.kind \in {"Put", "CPut"} /\ o.col = c /\ o.v2 = v
Replaces(o, c, v) == o.kind = "CPut" /\ o.col = c /\ o.v1 = v /\ o.v2 # v
====
