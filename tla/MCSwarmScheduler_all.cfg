SPECIFICATION Spec
CONSTANTS
  Task = {1, 2, 3, 4}
  File = {f, g}
  f = f
  g = g
  grp = grp
  Group = {grp}
  NoGroup = NoGroup
  NoLimit = NoLimit
  Jobs <- AllJobs
INVARIANT IndependentRunnables
INVARIANT SafeBatches
INVARIANT NoNeedlessBatch
INVARIANT ScheduleAgrees
CHECK_DEADLOCK FALSE
