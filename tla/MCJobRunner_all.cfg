SPECIFICATION FairSpec
CONSTANTS
  j1 = j1
  j2 = j2
  w1 = w1
  w2 = w2
  c1 = c1
  None = None
  Job = {j1, j2}
  Worker = {w1, w2}
  Caller = {c1}
  Faults = {"disk", "text", "close"}
INVARIANT EndIsOnRecord
INVARIANT CancelReachesProcess
PROPERTY ToldInOrder
PROPERTY JobsEnd
CHECK_DEADLOCK FALSE
