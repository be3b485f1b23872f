\* Three concurrent writers of one row; nodes may crash, nothing else goes wrong.
CONSTANTS
  c1 = c1
  empty = empty
  a = a
  b = b
  r1 = r1
  r2 = r2
  r3 = r3
  N = 2
  Thread = {r1, r2, r3}
  MaxFaults = 0
  Col = {c1}
  EmptyKey = EmptyKey
  Value = {empty, a, b}
  EmptyValue = empty
  Absent = Absent
  NoReq = NoReq
  Workload <- Writers
SPECIFICATION Spec
INVARIANTS WriteMutex ReplicasAgree NoLostUpdate
CHECK_DEADLOCK FALSE
