\* Two requests on two nodes, crashes, and at most one other fault of any kind.
CONSTANTS
  c1 = c1
  empty = empty
  a = a
  b = b
  r1 = r1
  r2 = r2
  r3 = r3
  N = 2
  Thread = {r1, r2}
  MaxFaults = 1
  Col = {c1}
  EmptyKey = EmptyKey
  Value = {empty, a, b}
  EmptyValue = empty
  Absent = Absent
  NoReq = NoReq
  Workload <- Pairs
SPECIFICATION Spec
INVARIANTS TypeOK OnlyAccepted RowLockHeld
CHECK_DEADLOCK FALSE
