\* A node restarted on its own checkpoint.
CONSTANTS
  k1 = k1
  k2 = k2
  a = a
  b = b
  t1 = t1
  t2 = t2
  t3 = t3
  Key = {k1, k2}
  Value = {a, b}
  Absent = Absent
  NoEntry = NoEntry
  Thread = {t1, t2, t3}
  Workload <- Writes
  PeerTablet <- Peers
  MaxFd = 3
  MaxFaults = 0
SPECIFICATION Spec
INVARIANT StartsAgain
CHECK_DEADLOCK FALSE
