SPECIFICATION ChannelFairSpec
CONSTANTS
  n = 4
  Divide = 4
  MAX_VALUE = 63
  Wrap = 8
  PowerUp = {1}
  ResetLevels = {TRUE, FALSE}
INVARIANT NoEdgeLost
PROPERTIES BelievesRuns ResetNeverReaches FollowsHall
