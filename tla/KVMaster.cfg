\* Three nodes that may all crash, two asking threads, and at most one other fault of any kind.
CONSTANTS
  N = 3
  Thread = {t1, t2}
  MaxFaults = 1
SPECIFICATION FairMemberSpec
INVARIANTS MemberTypeOK SinglePrimary NoStrayForward
PROPERTY FailoverCompletes
