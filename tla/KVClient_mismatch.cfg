\* A put, and a cput that expects another value than it finds.
CONSTANTS
  c1 = c1
  empty = empty
  a = a
  b = b
  p = p
  q = q
  s = s
  Client = {p, q}
  Tries = 2
  Bound <- ClashBounds
  Defaulting = {q}
  Thread <- Requests
  Workload <- Clash
  Col = {c1}
  EmptyKey = EmptyKey
  Value = {empty, a, b}
  EmptyValue = empty
  Absent = Absent
SPECIFICATION Spec
INVARIANT MismatchReported
CHECK_DEADLOCK FALSE
