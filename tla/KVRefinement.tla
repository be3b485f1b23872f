----------------------------- MODULE KVRefinement -----------------------------
(***************************************************************************)
(* KVReplication implements KVRow as long as processes only crash and stay *)
(* down: the versions of the row are those of the running nodes, a request *)
(* writes while it multicasts, and is late when its primary has died and   *)
(* some of its PPuts have not.                                             *)
(***************************************************************************)
EXTENDS KVReplication

Running == {n \in Node : proc[n] = "up"}

\* How far a request is for its client.
PhaseOf(r) ==
  IF pc[r] = "idle" THEN "idle"
  ELSE IF pc[r] = "multicast" THEN "writing"
  ELSE IF pc[r] # "done" THEN "open"
  ELSE IF \E m \in Node : mc[r][m] \in {"sent", "wait"} THEN "late" ELSE "done"

Versions == {row[n] : n \in Running}
Phases == [r \in Thread |-> PhaseOf(r)]
Begun == {r \in Thread : Started(r)}
Whole == Running = Node

Row == INSTANCE KVRow WITH
  versions <- Versions, phase <- Phases, begun <- Begun, whole <- Whole

\* The nodes keep the promises of KVRow to their clients, whatever the interleaving of handlers,
\* forwarded requests, multicasts, elections and crashes (Get, Put, Delete, CPut, PPut, PDelete).
ImplementsRow == Row!RowSpec
====
