\* Three clients of one row, two tries a call: three competing calls, or two of any kind and a crash.
CONSTANTS
  c1 = c1
  empty = empty
  a = a
  b = b
  p = p
  q = q
  s = s
  Client = {p, q, s}
  Tries = 2
  Bound <- CallBounds
  Defaulting = {s}
  Thread <- Requests
  Workload <- Calls
  Col = {c1}
  EmptyKey = EmptyKey
  Value = {empty, a, b}
  EmptyValue = empty
  Absent = Absent
SPECIFICATION FairSpec
INVARIANTS TypeOK ExactlyOnce OneVersion NoLostCPut
PROPERTIES CallsEnd AtomicWrites
CHECK_DEADLOCK FALSE
