\* Two connections deliver up to two mails each to one mailbox.
CONSTANTS
  w1 = w1
  w2 = w2
  u1 = u1
  s1 = s1
  Worker = {w1, w2}
  User = {u1}
  Stranger = Stranger
  Address <- LocalAddresses
  Sender = {s1}
  NoSender = NoSender
  NoWorker = NoWorker
  MAX_CONNECTIONS = 2
  MaxRcpt = 1
  MaxMail = 2
SPECIFICATION FairSpec
INVARIANTS TypeOK OneWriter LocksInOrder
PROPERTIES DeliveredAsNamed DeliveryEnds
CHECK_DEADLOCK FALSE
