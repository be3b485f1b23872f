\* Three frontends that come and go, three connections.
CONSTANTS
  c1 = c1
  c2 = c2
  c3 = c3
  Port = {1, 2, 3}
  Client = {c1, c2, c3}
SPECIFICATION Spec
INVARIANTS TypeOK Balanced
PROPERTY PicksFromOneRound
