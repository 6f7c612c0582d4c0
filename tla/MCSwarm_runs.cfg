SPECIFICATION Spec
CONSTANTS
  Task = {1, 2, 3}
  File = {f, g}
  f = f
  g = g
  Group = {}
  NoGroup = NoGroup
  NoLimit = NoLimit
  NoBranch = NoBranch
  NoRun = NoRun
  DefaultAttempts = 2
  AttemptCap = 2
  Plans <- AllPlans
  RunOptions <- AllOptions
CONSTRAINT FewOptions
INVARIANT TypeOK
INVARIANT MergedIsDone
INVARIANT SeesDependencies
INVARIANT InProgressHasWorker
INVARIANT NeverTogether
PROPERTY ImplementsDelivery
PROPERTY CompletedStays
PROPERTY StartsReleased
PROPERTY ExpectedRedWaits
