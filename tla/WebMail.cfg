\* Two connections and a call of the mail helper compete for two slots; nobody names a sender.
CONSTANTS
  w1 = w1
  w2 = w2
  h1 = h1
  u1 = u1
  Worker = {w1, w2, h1}
  Helper = {h1}
  User = {u1}
  Stranger = Stranger
  Address <- LocalAddresses
  Sender = {}
  NoSender = NoSender
  NoWorker = NoWorker
  MAX_CONNECTIONS = 2
  MaxRcpt = 0
  MaxMail = 0
SPECIFICATION FairWebSpec
INVARIANT SlotsMatch
PROPERTY HelperReturns
CHECK_DEADLOCK FALSE
