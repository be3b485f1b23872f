\* One frontend, one redirected browser, two operations of the console.
CONSTANTS
  c1 = c1
  a1 = a1
  a2 = a2
  Port = {1}
  Client = {c1}
  Admin = {a1, a2}
  Knock = Knock
SPECIFICATION FairWebSpec
INVARIANTS WebTypeOK OneMoreClient
PROPERTIES ShutdownTakesEffect ConsoleEnds
