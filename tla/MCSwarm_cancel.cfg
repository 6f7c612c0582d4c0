SPECIFICATION FairSpec
CONSTANTS
  Task = {1, 2}
  File = {f, g}
  f = f
  g = g
  Group = {}
  NoGroup = NoGroup
  NoLimit = NoLimit
  NoBranch = NoBranch
  NoRun = NoRun
  DefaultAttempts = 2
  AttemptCap = 2
  Plans <- PairOnly
  RunOptions <- CancelOptions
PROPERTY CancelledRunEnds
